---- MODULE Spec2Model ----
(***************************************************************************)
(* Model of mypangu/udai: the two DevTools detection engines and the       *)
(* offline cache.                                                          *)
(*                                                                         *)
(*   soft variant        src/unnamed/part_000  (YouDai DevShield)          *)
(*   aggressive variant  src/unnamed/part_001  (EnhancedDevToolsProtection)*)
(*   service worker      src/service_worker.js                             *)
(*                                                                         *)
(* Every browser task (script load, timer callback, event handler, call of *)
(* a public function by the page) is one action: it runs to completion,    *)
(* together with the MutationObserver microtasks it queues.  Timers are    *)
(* pending-callback counters; a pending callback may run at any later      *)
(* step.  What the browser reports to a handler (geometry, debugger delay, *)
(* console behaviour) is an input of the action.                           *)
(***************************************************************************)
EXTENDS Integers, Sequences, FiniteSets, TLC

VARIABLES shield, prot, sw

vars == <<shield, prot, sw>>

Abs(x) == IF x < 0 THEN 0 - x ELSE x

Min(a, b) == IF a < b THEN a ELSE b

(***************************************************************************)
(*                     SOFT VARIANT  (part_000)                            *)
(***************************************************************************)

\* let threshold = 200  (ms threshold of the timing heuristic)
threshold == 200

\* sizeHeuristic: gapW > 160 || gapH > 160
gapLimit == 160

\* The subscribers the page may register.  What a subscriber does when it is
\* invoked is page code; three kinds are modelled.
Callbacks == {"cbPlain", "cbThrows", "cbOnce"}

\* cbThrows throws from its body; cbOnce calls its own unsubscribe handle
\* while it is being invoked; cbPlain only observes.
CbKind(cb) ==
  CASE cb = "cbThrows" -> "throws"
    [] cb = "cbOnce"   -> "once"
    [] OTHER           -> "plain"

\* Inputs of a probe run: the delay dt (ms) measured around the debugger
\* statement and the differences dw, dh = outer - inner of the window, on and
\* around the thresholds.
Readings ==
  { [dt |-> 0,   dw |-> 0,   dh |-> 0],
    [dt |-> 200, dw |-> 160, dh |-> -160],
    [dt |-> 210, dw |-> 0,   dh |-> 0],
    [dt |-> 0,   dw |-> 161, dh |-> 0],
    [dt |-> 0,   dw |-> 0,   dh |-> -161],
    [dt |-> 210, dw |-> 161, dh |-> 0] }

NoReason == [tag |-> "", ms |-> 0]

Reason(tag) == [tag |-> tag, ms |-> 0]

NoDetail == [tag |-> "none"]

\* The argument of the last task, when it has one: the readings of a probe
\* run, or the argument of an API call.
NoInput == [kind |-> "none"]

ReadingInput(r) == [kind |-> "reading", dt |-> r.dt, dw |-> r.dw, dh |-> r.dh]

ShowInput(show) == [kind |-> "show", show |-> show]

\* STATE = { open: false, reason: 'init', listeners: new Set() } and the
\* rest of the closure's state, before the script has run.
ShieldInit ==
  [ phase         |-> "unloaded",
    open          |-> FALSE,
    reason        |-> Reason("init"),
    listeners     |-> <<>>,
    handles       |-> {},
    dropped       |-> {},
    hostAttached  |-> FALSE,
    observing     |-> FALSE,
    bannerShown   |-> FALSE,
    blurGlobal    |-> FALSE,
    badgeHidden   |-> FALSE,
    apiDefined    |-> FALSE,
    resizeListener|-> FALSE,
    detectTimers  |-> 0,
    detectTimerLive |-> FALSE,
    sizeTimers    |-> 0,
    sizeTimerLive |-> FALSE,
    rafPending    |-> FALSE,
    logged        |-> FALSE,
    consoleProbeOpen |-> FALSE,
    integrityPending |-> FALSE,
    metaAdded     |-> FALSE,
    debugNotice   |-> FALSE,
    exc           |-> FALSE,
    events        |-> <<>>,
    calls         |-> <<>>,
    lastOp        |-> "none",
    input         |-> NoInput,
    prevOpen      |-> FALSE ]

\* Start of a task: the per-task log (events dispatched on window, subscriber
\* invocations) is emptied and the belief before the task is remembered.  An
\* exception that ended the previous task is gone.
Begin(s, op) ==
  [s EXCEPT !.events = <<>>, !.calls = <<>>, !.lastOp = op, !.prevOpen = s.open,
            !.input = NoInput, !.exc = FALSE]

\* What a listener reads when it is invoked: isOpen(), STATE.reason as carried
\* by the API, the banner and blur classes, and what the script has set up.
Seen(s) ==
  [open |-> s.open, reason |-> s.reason, banner |-> s.bannerShown,
   blur |-> s.blurGlobal, api |-> s.apiDefined, resize |-> s.resizeListener,
   pollScheduled |-> s.detectTimerLive]

RemoveAt(seq, i) == SubSeq(seq, 1, i - 1) \o SubSeq(seq, i + 1, Len(seq))

IndexOf(seq, x) ==
  IF \E i \in 1..Len(seq) : seq[i] = x
  THEN CHOOSE i \in 1..Len(seq) : seq[i] = x
  ELSE 0

\* STATE.listeners.add(cb): a Set keeps insertion order and no duplicates.
SetAdd(seq, x) == IF IndexOf(seq, x) > 0 THEN seq ELSE Append(seq, x)

\* STATE.listeners.delete(cb)
SetDelete(seq, x) == IF IndexOf(seq, x) > 0 THEN RemoveAt(seq, IndexOf(seq, x)) ELSE seq

\* api.onChange(cb) { STATE.listeners.add(cb); return () => ...; }
\* handles: the subscribers the page holds an unsubscribe handle for.
onChange(s, cb) ==
  [s EXCEPT !.listeners = SetAdd(@, cb), !.handles = @ \cup {cb}, !.dropped = @ \ {cb}]

\* A faulty handle that leaves the subscriber in the set.
unsubscribe_NoDelete(s, cb) == [s EXCEPT !.dropped = @ \cup {cb}]

\* The handle returned by onChange(cb): () => STATE.listeners.delete(cb)
\* dropped: the subscribers whose handle was called since they last subscribed.
unsubscribe(s, cb) ==
  [s EXCEPT !.listeners = SetDelete(@, cb), !.dropped = @ \cup {cb}]

\* cb(detail): the subscriber runs; a throwing one leaves an exception behind,
\* a self-unsubscribing one calls its handle.
Invoke(s, cb, detail) ==
  LET s1 == [s EXCEPT !.calls = Append(@, [cb |-> cb, detail |-> detail, seen |-> Seen(s)])]
  IN  CASE CbKind(cb) = "throws" -> [s1 EXCEPT !.exc = TRUE]
        [] CbKind(cb) = "once"   -> unsubscribe(s1, cb)
        [] OTHER                 -> s1

\* A forEach without the try/catch: the first exception ends the iteration and
\* leaves the function.
RECURSIVE ForEachListener_NoCatch(_, _, _)
ForEachListener_NoCatch(s, i, detail) ==
  IF i > Len(s.listeners) \/ s.exc THEN s
  ELSE LET cb == s.listeners[i]
           s2 == Invoke(s, cb, detail)
       IN  ForEachListener_NoCatch(s2, IF IndexOf(s2.listeners, cb) > 0 THEN i + 1 ELSE i,
                                   detail)

\* STATE.listeners.forEach((cb) => { try { cb(detail); } catch (e) {} })
\* from position i on.  A subscriber removed during the iteration and not yet
\* visited is not visited; the exception of a throwing subscriber is caught
\* and the iteration goes on.
RECURSIVE ForEachListener(_, _, _)
ForEachListener(s, i, detail) ==
  IF i > Len(s.listeners) THEN s
  ELSE LET cb == s.listeners[i]
           s2 == [Invoke(s, cb, detail) EXCEPT !.exc = FALSE]
       IN  ForEachListener(s2, IF IndexOf(s2.listeners, cb) > 0 THEN i + 1 ELSE i, detail)

\* const dispatch = (name, detail) => { window.dispatchEvent(...); listeners.forEach(...) }
dispatch(s, name, detail) ==
  ForEachListener([s EXCEPT !.events = Append(@, [name |-> name, detail |-> detail,
                                                   seen |-> Seen(s)])],
                  1, detail)

\* A faulty showBanner that shows the badge with the banner and hides it with it.
showBanner_AlsoBadge(s, show) == [s EXCEPT !.bannerShown = show, !.badgeHidden = ~show]

\* showBanner(show): el.classList.toggle('show', !!show)
showBanner(s, show) == [s EXCEPT !.bannerShown = show]

\* setGlobalBlur(on): documentElement.classList.toggle('blur-global', !!on)
setGlobalBlur(s, on) == [s EXCEPT !.blurGlobal = on]

\* setBadgeVisible(show): el.classList.toggle('hidden', !show)
setBadgeVisible(s, show) == [s EXCEPT !.badgeHidden = ~show]

\* A faulty timeHeuristic that does not name itself in the reason.
timeHeuristic_Anonymous(dt) ==
  IF dt > threshold THEN [open |-> TRUE, reason |-> [tag |-> "poll", ms |-> dt]]
  ELSE [open |-> FALSE, reason |-> NoReason]

\* timeHeuristic: dt > threshold ? { open: true, reason: 'debugger-timing(dt ms)' } : null
timeHeuristic(dt) ==
  IF dt > threshold THEN [open |-> TRUE, reason |-> [tag |-> "debugger-timing", ms |-> dt]]
  ELSE [open |-> FALSE, reason |-> NoReason]

\* sizeHeuristic: gapW > 160 || gapH > 160 ? { open: true, reason: 'viewport-gap' } : null
sizeHeuristic(dw, dh) ==
  IF Abs(dw) > gapLimit \/ Abs(dh) > gapLimit
  THEN [open |-> TRUE, reason |-> Reason("viewport-gap")]
  ELSE [open |-> FALSE, reason |-> NoReason]

\* A faulty setState that notifies before it records and reacts.
setState_NotifyFirst(s, open, reason) ==
  IF s.open = open /\ reason = NoReason THEN s
  ELSE LET s1 == dispatch(s, "youdai:devtools-change",
                          [tag |-> "change", open |-> open,
                           reason |-> IF reason = NoReason THEN s.reason ELSE reason])
           s2 == [s1 EXCEPT !.open = open,
                            !.reason = IF reason = NoReason THEN @ ELSE reason]
       IN  setGlobalBlur(showBanner(s2, open), open)

\* const setState = (open, reason) => { if (STATE.open === open && !reason) return; ... }
setState(s, open, reason) ==
  IF s.open = open /\ reason = NoReason THEN s
  ELSE LET s1 == [s EXCEPT !.open = open,
                           !.reason = IF reason = NoReason THEN @ ELSE reason]
           s2 == setGlobalBlur(showBanner(s1, open), open)
       IN  dispatch(s2, "youdai:devtools-change",
                    [tag |-> "change", open |-> s2.open, reason |-> s2.reason])

\* A faulty poll that sets its next timeout without clearing the one it holds
\* and sets one more when the belief changed.
poll_Multiplies(s, dt, dw, dh) ==
  LET t   == timeHeuristic(dt)
      sig == IF t.open THEN t ELSE sizeHeuristic(dw, dh)
      s1  == IF sig.open THEN setState(s, TRUE, sig.reason)
             ELSE setState(s, FALSE, Reason("poll"))
  IN  [s1 EXCEPT !.detectTimers = @ + (IF s1.open # s.open /\ @ = 0 THEN 2 ELSE 1),
                 !.detectTimerLive = TRUE]

\* A faulty poll that only ever raises the belief.
poll_NeverLowers(s, dt, dw, dh) ==
  LET s0  == IF s.detectTimerLive
             THEN [s EXCEPT !.detectTimers = @ - 1, !.detectTimerLive = FALSE]
             ELSE s
      t   == timeHeuristic(dt)
      sig == IF t.open THEN t ELSE sizeHeuristic(dw, dh)
      s1  == IF sig.open THEN setState(s0, TRUE, sig.reason)
             ELSE setState(s0, s0.open, Reason("poll"))
  IN  [s1 EXCEPT !.detectTimers = @ + 1, !.detectTimerLive = TRUE]

\* Pending timeouts are counted (detectTimers, sizeTimers); detectTimerLive and
\* sizeTimerLive say whether the id held in detectTimer / sizeTimer names a
\* timeout that is still pending, which is what clearTimeout can cancel.

\* const poll = () => { clearTimeout(detectTimer); sig = timeHeuristic() || sizeHeuristic();
\*   if (sig) setState(true, sig.reason); else setState(false, 'poll');
\*   detectTimer = setTimeout(poll, 800); }
poll(s, dt, dw, dh) ==
  LET s0  == IF s.detectTimerLive
             THEN [s EXCEPT !.detectTimers = @ - 1, !.detectTimerLive = FALSE]
             ELSE s
      t   == timeHeuristic(dt)
      sig == IF t.open THEN t ELSE sizeHeuristic(dw, dh)
      s1  == IF sig.open THEN setState(s0, TRUE, sig.reason)
             ELSE setState(s0, FALSE, Reason("poll"))
  IN  IF s1.exc THEN s1
      ELSE [s1 EXCEPT !.detectTimers = @ + 1, !.detectTimerLive = TRUE]

\* const sizeWatcher = () => { clearTimeout(sizeTimer); sizeTimer = setTimeout(..., 200); }
sizeWatcher(s) ==
  LET s0 == IF s.sizeTimerLive
            THEN [s EXCEPT !.sizeTimers = @ - 1, !.sizeTimerLive = FALSE]
            ELSE s
  IN  [s0 EXCEPT !.sizeTimers = @ + 1, !.sizeTimerLive = TRUE]

\* A faulty observer callback that re-attaches and reports on every delivery.
moCallback_Unconditional(s) ==
  dispatch([s EXCEPT !.hostAttached = TRUE],
           "youdai:tamper", [tag |-> "tamper", type |-> "overlay-removed"])

\* The MutationObserver callback mo: re-attach the host and report tampering
\* when the host is no longer in the document.
moCallback(s) ==
  IF ~s.hostAttached
  THEN dispatch([s EXCEPT !.hostAttached = TRUE],
                "youdai:tamper", [tag |-> "tamper", type |-> "overlay-removed"])
  ELSE s

\* A DOM mutation under documentElement is delivered to mo at the end of the
\* task; the re-attachment mo makes is itself a mutation and is delivered to
\* mo once more.
DeliverMutations(s) ==
  IF ~s.observing THEN s
  ELSE LET s1 == moCallback(s)
       IN  IF s1.hostAttached # s.hostAttached THEN moCallback(s1) ELSE s1

\* A faulty script body that looks at the opt-out flag after it has attached
\* the host and started observing.
LoadScript_OptOutLate(s, debug, dt, dw, dh) ==
  LET s1 == [s EXCEPT !.hostAttached = TRUE, !.observing = TRUE]
  IN  IF debug THEN [s1 EXCEPT !.phase = "disabled", !.debugNotice = TRUE]
      ELSE LET s2 == poll([s1 EXCEPT !.phase = "running",
                                     !.integrityPending = TRUE,
                                     !.apiDefined = TRUE,
                                     !.resizeListener = TRUE], dt, dw, dh)
           IN  dispatch([s2 EXCEPT !.rafPending = TRUE], "youdai:shield-ready", NoDetail)

\* A faulty script body that announces readiness before the API, the resize
\* listener and the first poll.
LoadScript_ReadyFirst(s, debug, dt, dw, dh) ==
  IF debug THEN [s EXCEPT !.phase = "disabled", !.debugNotice = TRUE]
  ELSE LET s1 == dispatch([s EXCEPT !.phase = "running",
                                    !.hostAttached = TRUE,
                                    !.observing = TRUE,
                                    !.integrityPending = TRUE],
                          "youdai:shield-ready", NoDetail)
           s2 == poll([s1 EXCEPT !.apiDefined = TRUE, !.resizeListener = TRUE], dt, dw, dh)
       IN  [s2 EXCEPT !.rafPending = TRUE]

\* The script body (the IIFE), lines 28-222.  With debug=1 in the URL it writes
\* one console.info line and returns.
LoadScript(s, debug, dt, dw, dh) ==
  IF debug THEN [s EXCEPT !.phase = "disabled", !.debugNotice = TRUE]
  ELSE LET s1 == [s EXCEPT !.phase = "running",
                           !.hostAttached = TRUE,
                           !.observing = TRUE,
                           !.integrityPending = TRUE,
                           !.apiDefined = TRUE,
                           !.resizeListener = TRUE]
           s2 == poll(s1, dt, dw, dh)
           s3 == [s2 EXCEPT !.rafPending = TRUE]
       IN  IF s2.exc THEN s2 ELSE dispatch(s3, "youdai:shield-ready", NoDetail)

----------------------------------------------------------------------------
\* Actions of the soft variant.

Load ==
  /\ shield.phase = "unloaded"
  /\ \E debug \in BOOLEAN, r \in Readings :
       shield' = LoadScript([Begin(shield, "load") EXCEPT !.input = ReadingInput(r)],
                            debug, r.dt, r.dw, r.dh)
  /\ UNCHANGED <<prot, sw>>

\* A pending poll timeout fires.  It is the one detectTimer names when that
\* one is the only one pending.
PollTick ==
  /\ shield.detectTimers > 0
  /\ \E r \in Readings, named \in BOOLEAN :
       /\ named => shield.detectTimerLive
       /\ shield.detectTimers = 1 /\ shield.detectTimerLive => named
       /\ shield' = poll([Begin(shield, "poll") EXCEPT
                             !.input = ReadingInput(r),
                             !.detectTimers = @ - 1,
                             !.detectTimerLive = @ /\ ~named],
                         r.dt, r.dw, r.dh)
  /\ UNCHANGED <<prot, sw>>

\* sizeWatcher, the resize listener: clearTimeout(sizeTimer); sizeTimer = setTimeout(...)
ResizeEvent ==
  /\ shield.phase = "running"
  /\ shield.resizeListener
  /\ shield' = sizeWatcher(Begin(shield, "resizeEvent"))
  /\ UNCHANGED <<prot, sw>>

\* The sizeTimer timeout fires: setState(!!sizeHeuristic(), 'resize')
SizeTimerFire ==
  /\ shield.sizeTimers > 0
  /\ \E r \in Readings, named \in BOOLEAN :
       /\ named => shield.sizeTimerLive
       /\ shield.sizeTimers = 1 /\ shield.sizeTimerLive => named
       /\ shield' = setState([Begin(shield, "resize") EXCEPT
                                 !.input = ReadingInput(r),
                                 !.sizeTimers = @ - 1,
                                 !.sizeTimerLive = @ /\ ~named],
                             sizeHeuristic(r.dw, r.dh).open, Reason("resize"))
  /\ UNCHANGED <<prot, sw>>

\* raf(logProbe): console.log('%c', consoleProbe)
LogProbe ==
  /\ shield.rafPending
  /\ shield' = [Begin(shield, "logProbe") EXCEPT !.rafPending = FALSE, !.logged = TRUE]
  /\ UNCHANGED <<prot, sw>>

\* An open console formats the logged consoleProbe: its toString runs.
ConsoleProbeToString ==
  /\ shield.logged
  /\ shield' = setState([Begin(shield, "consoleProbe") EXCEPT !.consoleProbeOpen = TRUE],
                        TRUE, Reason("console-probe"))
  /\ UNCHANGED <<prot, sw>>

\* api.onChange(cb): listeners.add(cb); the page keeps the returned handle.
OnChange ==
  /\ shield.apiDefined
  /\ \E cb \in Callbacks :
       shield' = onChange(Begin(shield, "onChange"), cb)
  /\ UNCHANGED <<prot, sw>>

\* The page calls a handle returned by onChange(cb): listeners.delete(cb)
Unsubscribe ==
  /\ \E cb \in shield.handles :
       shield' = unsubscribe(Begin(shield, "unsubscribe"), cb)
  /\ UNCHANGED <<prot, sw>>

\* api.watermark(show): setBadgeVisible(show !== false)
Watermark ==
  /\ shield.apiDefined
  /\ \E show \in {"true", "false", "undefined"} :
       shield' = setBadgeVisible([Begin(shield, "watermark") EXCEPT !.input = ShowInput(show)],
                                 show # "false")
  /\ UNCHANGED <<prot, sw>>

\* api.blurSensitive(show): setGlobalBlur(show !== false)
BlurSensitive ==
  /\ shield.apiDefined
  /\ \E show \in {"true", "false", "undefined"} :
       shield' = setGlobalBlur([Begin(shield, "blurSensitive") EXCEPT !.input = ShowInput(show)],
                               show # "false")
  /\ UNCHANGED <<prot, sw>>

\* Code outside the shield removes the host element from the document.
HostRemoved ==
  /\ shield.phase = "running"
  /\ shield.hostAttached
  /\ shield' = DeliverMutations([Begin(shield, "hostRemoved") EXCEPT !.hostAttached = FALSE])
  /\ UNCHANGED <<prot, sw>>

\* Any other DOM mutation under documentElement.
OtherMutation ==
  /\ shield.phase = "running"
  /\ shield' = DeliverMutations(Begin(shield, "otherMutation"))
  /\ UNCHANGED <<prot, sw>>

\* The integrity check (async IIFE) completes: it returns early, appends the
\* hash meta element (a DOM mutation), or its fetch/hash throws.
IntegrityDone ==
  /\ shield.integrityPending
  /\ \E outcome \in {"skipped", "hashed", "failed"} :
       LET s0 == [Begin(shield, "integrity") EXCEPT !.integrityPending = FALSE]
       IN  shield' =
             CASE outcome = "skipped" -> s0
               [] outcome = "hashed"  -> DeliverMutations([s0 EXCEPT !.metaAdded = TRUE])
               [] OTHER -> dispatch(s0, "youdai:tamper",
                                    [tag |-> "tamper", type |-> "integrity-check-failed"])
  /\ UNCHANGED <<prot, sw>>

NextSoft ==
  \/ Load
  \/ PollTick
  \/ ResizeEvent
  \/ SizeTimerFire
  \/ LogProbe
  \/ ConsoleProbeToString
  \/ OnChange
  \/ Unsubscribe
  \/ Watermark
  \/ BlurSensitive
  \/ HostRemoved
  \/ OtherMutation
  \/ IntegrityDone

(***************************************************************************)
(*                  AGGRESSIVE VARIANT  (part_001)                         *)
(***************************************************************************)

\* Bounds of the model: the timeouts (closing confirmation, console
\* double-check, resize, focus/blur/visibility, self-heal) pending when a task
\* of the environment may still set one more, and the overlay observers
\* registered when the environment may still remove the overlay.
MaxTimeouts == 2

MaxObservers == 2

\* Window geometries (screen, outer and inner sizes in px) on both sides of the
\* thresholds of the size heuristics.
Geometry(ow, oh, iw, ih) ==
  [sw |-> 1000, sh |-> 1000, ow |-> ow, oh |-> oh, iw |-> iw, ih |-> ih]

gPlain == Geometry(1000, 1000, 1000, 920)

gDocked == Geometry(1000, 1000, 1000, 600)

gEdge == Geometry(1000, 1000, 1000, 870)

gSmall == Geometry(700, 700, 700, 620)

Geometries == {gPlain, gDocked, gEdge, gSmall}

\* Delays (ms) measured around the three debugger statements of one pass.
DebuggerTrials == {<<0, 0, 0>>, <<50, 50, 50>>, <<0, 0, 51>>}

\* What the browser reports to one handler run.
\*   consoleOpen: the console formats (coerces) the objects logged to it
\*   globals:     how many of the inspector helper names are native functions
\*   slowLoad:    loadEventEnd - fetchStart > 2000
\* Every geometry and console state is combined with each of these readings of
\* the other probes.
Env ==
  {e \in [geom : Geometries, consoleOpen : BOOLEAN, dbg : DebuggerTrials,
          globals : {3, 4}, slowLoad : BOOLEAN] :
     \/ e.globals = 3 /\ ~e.slowLoad
     \/ e.dbg = <<0, 0, 0>> /\ (e.globals = 3 \/ ~e.slowLoad)}

\* The inputs that matter to the handlers that read only geometry and console.
EnvLight == {e \in Env : e.dbg = <<0, 0, 0>> /\ e.globals = 3 /\ ~e.slowLoad}

\* ... and to the closing confirmation, which also reads one debugger delay.
EnvClose == {e \in Env : e.globals = 3 /\ ~e.slowLoad}

\* The request primitives the page has when the script is constructed.
Primitives ==
  { [fetch |-> "native", xhrOpen |-> "native"],
    [fetch |-> "undef",  xhrOpen |-> "native"],
    [fetch |-> "native", xhrOpen |-> "undef"] }

ArgLists == {<<"a">>, <<"a", "b">>, <<"a", "b", "c">>}

NoCall == [api |-> "none"]

\* constructor(): the fields, and the page globals the class replaces, before
\* the script has run.
ProtInit ==
  [ phase            |-> "unloaded",
    isDevToolsOpen   |-> FALSE,
    protectionActive |-> FALSE,
    originalFetch    |-> "null",
    originalXHR      |-> "null",
    fetchImpl        |-> "native",
    xhrOpenImpl      |-> "native",
    webSocketBlocked |-> FALSE,
    eventSourceBlocked |-> FALSE,
    bodyClasses      |-> FALSE,
    visualLock       |-> FALSE,
    bodyTransition   |-> FALSE,
    consoleFlood     |-> FALSE,
    domReadyPending  |-> FALSE,
    consoleWrapped   |-> FALSE,
    overlay          |-> FALSE,
    overlayNodes     |-> 0,
    overlayObservers |-> 0,
    healTimers       |-> 0,
    closeTimers      |-> 0,
    consoleTimers    |-> 0,
    elementTimers    |-> 0,
    resizeTimers     |-> 0,
    multiTimers      |-> 0,
    net              |-> NoCall,
    lastOp           |-> "none",
    lastCount        |-> 0,
    prevOpen         |-> FALSE,
    faultExpect      |-> 0,
    cycles           |-> 0,
    preActivation    |-> [fetchImpl |-> "native", xhrOpenImpl |-> "native",
                          webSocketBlocked |-> FALSE, eventSourceBlocked |-> FALSE,
                          bodyClasses |-> FALSE, visualLock |-> FALSE] ]

\* Start of a task: the per-task records are reset and the belief before the
\* task is remembered.
BeginP(p, op) ==
  [p EXCEPT !.net = NoCall, !.lastOp = op, !.lastCount = 0, !.prevOpen = p.isDevToolsOpen,
            !.faultExpect = 0]

\* interceptNetworkRequests(): save the originals, install the wrappers.  Where
\* window.XMLHttpRequest is undefined, reading its prototype throws after
\* originalFetch was saved, and the exception leaves the constructor.
interceptNetworkRequests(p) ==
  IF p.xhrOpenImpl = "undef"
  THEN [p EXCEPT !.originalFetch = p.fetchImpl, !.phase = "failed"]
  ELSE [p EXCEPT !.originalFetch = p.fetchImpl, !.originalXHR = p.xhrOpenImpl,
                 !.fetchImpl = "wrapper", !.xhrOpenImpl = "wrapper"]

\* A faulty blockNetworkRequests whose guard is inverted.
blockNetworkRequests_GuardInverted(p) ==
  IF p.isDevToolsOpen THEN p
  ELSE [p EXCEPT !.fetchImpl = "block", !.xhrOpenImpl = "block",
                 !.webSocketBlocked = TRUE, !.eventSourceBlocked = TRUE]

\* blockNetworkRequests(): if (!this.isDevToolsOpen) return; replace fetch, XHR
\* open, WebSocket and EventSource by functions that fail.
blockNetworkRequests(p) ==
  IF ~p.isDevToolsOpen THEN p
  ELSE [p EXCEPT !.fetchImpl = "block", !.xhrOpenImpl = "block",
                 !.webSocketBlocked = TRUE, !.eventSourceBlocked = TRUE]

\* A faulty restoreNetworkRequests that leaves the blocking functions in place.
restoreNetworkRequests_KeepBlock(p) == p

\* restoreNetworkRequests(): put back the saved originals, when there are any.
restoreNetworkRequests(p) ==
  [p EXCEPT !.fetchImpl = IF p.originalFetch \in {"null", "undef"} THEN @ ELSE p.originalFetch,
            !.xhrOpenImpl = IF p.originalXHR \in {"null", "undef"} THEN @ ELSE p.originalXHR]

\* Faulty observers that do not react to the removal.
overlayRemoved_NoHeal(p) ==
  [p EXCEPT !.overlay = p.overlayNodes > 1, !.overlayNodes = @ - 1]

\* The overlay leaves document.body: each MutationObserver registered by
\* showEnhancedProtectionOverlay sees the removed node and sets a 100 ms timeout
\* for showEnhancedProtectionOverlay.
\* (overlayNodes: the elements of id 'devtools-overlay' in the document;
\*  overlay: getElementById('devtools-overlay') finds one)
overlayRemoved(p) ==
  [p EXCEPT !.overlay = p.overlayNodes > 1, !.overlayNodes = @ - 1,
            !.healTimers = @ + p.overlayObservers]

\* Faulty construction without the check for an existing overlay.
showEnhancedProtectionOverlay_NoGuard(p) ==
  [p EXCEPT !.overlay = TRUE, !.overlayNodes = @ + 1, !.overlayObservers = @ + 1]

\* showEnhancedProtectionOverlay(): if (existing) return; append the overlay and
\* register one more MutationObserver on document.body.
showEnhancedProtectionOverlay(p) ==
  IF p.overlay THEN p
  ELSE [p EXCEPT !.overlay = TRUE, !.overlayNodes = @ + 1, !.overlayObservers = @ + 1]

\* applyVisualLock()
applyVisualLock(p) == [p EXCEPT !.visualLock = TRUE, !.bodyTransition = TRUE]

\* clearVisualLock(): the filter, opacity, pointer-events and overflow styles are
\* emptied; transition is set again.
clearVisualLock(p) == [p EXCEPT !.visualLock = FALSE, !.bodyTransition = TRUE]

\* startConsoleFlood() / stopConsoleFlood()
startConsoleFlood(p) == [p EXCEPT !.consoleFlood = TRUE]

stopConsoleFlood(p) == [p EXCEPT !.consoleFlood = FALSE]

\* A faulty activateProtection that leaves the network functions as they are.
activateProtection_NoBlock(p) ==
  IF p.protectionActive THEN p
  ELSE applyVisualLock(startConsoleFlood(
         [p EXCEPT !.protectionActive = TRUE, !.bodyClasses = TRUE]))

\* The page globals and body styles that activation replaces or changes.
Restrictable(p) ==
  [fetchImpl |-> p.fetchImpl, xhrOpenImpl |-> p.xhrOpenImpl,
   webSocketBlocked |-> p.webSocketBlocked, eventSourceBlocked |-> p.eventSourceBlocked,
   bodyClasses |-> p.bodyClasses, visualLock |-> p.visualLock]

\* activateProtection(): if (this.protectionActive) return; ...
\* (preActivation: what Restrictable was when the activation started)
activateProtection(p) ==
  IF p.protectionActive THEN p
  ELSE applyVisualLock(startConsoleFlood(blockNetworkRequests(
         [p EXCEPT !.protectionActive = TRUE, !.bodyClasses = TRUE,
                   !.preActivation = Restrictable(p)])))

\* Faulty deactivation that resets the belief and leaves protectionActive set.
deactivateProtection_BeliefOnly(p) ==
  LET p1 == [p EXCEPT !.isDevToolsOpen = FALSE, !.bodyClasses = FALSE,
                      !.cycles = IF p.isDevToolsOpen THEN Min(@ + 1, 2) ELSE @]
      p2 == stopConsoleFlood(clearVisualLock(restoreNetworkRequests(p1)))
  IN  IF p2.overlay THEN overlayRemoved(p2) ELSE p2

\* deactivateProtection()
\* (cycles: how often the belief went from Open to Closed: 0, 1, or 2 for more)
deactivateProtection(p) ==
  LET p1 == [p EXCEPT !.protectionActive = FALSE, !.isDevToolsOpen = FALSE,
                      !.bodyClasses = FALSE,
                      !.cycles = IF p.isDevToolsOpen THEN Min(@ + 1, 2) ELSE @]
      p2 == stopConsoleFlood(clearVisualLock(restoreNetworkRequests(p1)))
  IN  IF p2.overlay THEN overlayRemoved(p2) ELSE p2

\* handleDevToolsDetected(): if (this.isDevToolsOpen) return; ...
handleDevToolsDetected(p) ==
  IF p.isDevToolsOpen THEN p
  ELSE showEnhancedProtectionOverlay(activateProtection([p EXCEPT !.isDevToolsOpen = TRUE]))

\* A console method called with an object argument.  After blockBypassMethods the
\* method is the wrapper: while protection is active it calls
\* handleDevToolsDetected and returns without logging.  Otherwise the console
\* receives the object, and formats it when it is open.
consoleSwallows(p) == p.consoleWrapped /\ p.protectionActive

consoleCall(p) == IF consoleSwallows(p) THEN handleDevToolsDetected(p) ELSE p

\* A console whose methods are not wrapped: it formats whenever it is open.
consoleCoerces_Unwrapped(p, e) == e.consoleOpen

consoleCoerces(p, e) == ~consoleSwallows(p) /\ e.consoleOpen

\* The six methods of detectDevToolsMultipleMethods.
method1(p, e) == consoleCoerces(p, e)

method2(e) ==
  LET g == e.geom
      heightDiff == g.oh - g.ih
      widthDiff  == g.ow - g.iw
  IN  \* heightDiff > Math.min(screen.height * 0.3, 200), in tenths
      \/ 10 * heightDiff > Min(3 * g.sh, 2000)
      \/ 10 * widthDiff > Min(3 * g.sw, 2000)

method3(e) == \E i \in 1..3 : e.dbg[i] > 50 /\ \A j \in 1..(i - 1) : ~(e.dbg[j] > 50)

method4(e) == e.globals > 3

method5(e) ==
  LET g == e.geom
  IN  10 * g.iw < 7 * g.ow \/ 10 * g.ih < 7 * g.oh

method6(e) == e.slowLoad

B2N(b) == IF b THEN 1 ELSE 0

detectionCount(p, e) ==
  B2N(method1(p, e)) + B2N(method2(e)) + B2N(method3(e)) + B2N(method4(e))
    + B2N(method5(e)) + B2N(method6(e))

\* detectDevToolsMultipleMethods(): if (detectionCount >= 2) handleDevToolsDetected()
detectDevToolsMultipleMethods(p, e) ==
  LET p1 == [consoleCall(p) EXCEPT !.lastCount = detectionCount(p, e)]
  IN  IF detectionCount(p, e) >= 2 THEN handleDevToolsDetected(p1) ELSE p1

\* The probe of detectDevToolsMultipleMethods whose code throws in a pass: 1
\* console.log, 3 performance.now, 4 the toString of a global, 5 matchMedia,
\* 6 performance.getEntriesByType.
ProbeFaults == {1, 3, 4, 5, 6}

\* The number of probes other than x that trigger.
OthersTriggered(p, e, x) ==
  (IF x = 1 THEN 0 ELSE B2N(method1(p, e))) + B2N(method2(e))
    + (IF x = 3 THEN 0 ELSE B2N(method3(e)))
    + (IF x = 4 THEN 0 ELSE B2N(method4(e)))
    + (IF x = 5 THEN 0 ELSE B2N(method5(e)))
    + (IF x = 6 THEN 0 ELSE B2N(method6(e)))

\* detectDevToolsMultipleMethods() when probe x throws.  Method 1: catch (e) {
\* detectionCount++ }.  Method 3 has no try: the exception leaves the function
\* after methods 1 and 2.  Method 4: catch (e) { return false } for the one
\* global.  Methods 5 and 6: catch (e) { /* Ignore */ }.
\* (faultExpect: the count the pass has when the exception counts as a verdict)
detectWithProbeFault(p, e, x) ==
  LET c12 == (IF x = 1 THEN 1 ELSE B2N(method1(p, e))) + B2N(method2(e))
      c   == c12 + B2N(method3(e))
               + (IF x = 4 THEN B2N(e.globals - 1 > 3) ELSE B2N(method4(e)))
               + (IF x = 5 THEN 0 ELSE B2N(method5(e)))
               + (IF x = 6 THEN 0 ELSE B2N(method6(e)))
      p0  == [consoleCall(p) EXCEPT !.faultExpect = OthersTriggered(p, e, x) + 1]
  IN  IF x = 3 THEN [p0 EXCEPT !.lastCount = c12]
      ELSE IF c >= 2 THEN handleDevToolsDetected([p0 EXCEPT !.lastCount = c])
      ELSE [p0 EXCEPT !.lastCount = c]

\* detectByConsoleImproved(): three detectors are logged; if one was coerced and
\* the belief is Closed, handleDevToolsDetected().
detectByConsoleImproved(p, e) ==
  LET detected == consoleCoerces(p, e)
      p1 == consoleCall(p)
  IN  IF detected /\ ~p1.isDevToolsOpen THEN handleDevToolsDetected(p1) ELSE p1

\* checkIfReallyClosed(): setTimeout(<closing confirmation>, 1000)
checkIfReallyClosed(p) == [p EXCEPT !.closeTimers = @ + 1]

\* suspiciousSize of detectByWindowSize (ratios in percent)
suspiciousSize(e) ==
  LET g == e.geom
      heightDiff == g.oh - g.ih
      widthDiff  == g.ow - g.iw
  IN  \/ 10 * g.ih < 7 * g.sh /\ heightDiff > 200
      \/ 10 * g.iw < 7 * g.sw /\ widthDiff > 250
      \/ heightDiff > 300 \/ widthDiff > 400

\* the closed-looking geometry of detectByWindowSize
looksClosed(e) ==
  LET g == e.geom
  IN  /\ 100 * g.ih > 85 * g.sh /\ 100 * g.iw > 85 * g.sw
      /\ g.oh - g.ih < 150 /\ g.ow - g.iw < 150

\* A faulty detectByWindowSize that deactivates at once on closed-looking geometry.
detectByWindowSize_CloseAtOnce(p, e) ==
  IF suspiciousSize(e) /\ ~p.isDevToolsOpen THEN [p EXCEPT !.consoleTimers = @ + 1]
  ELSE IF p.isDevToolsOpen /\ looksClosed(e) THEN deactivateProtection(p)
  ELSE p

\* detectByWindowSize()
detectByWindowSize(p, e) ==
  IF suspiciousSize(e) /\ ~p.isDevToolsOpen THEN [p EXCEPT !.consoleTimers = @ + 1]
  ELSE IF p.isDevToolsOpen /\ looksClosed(e) THEN checkIfReallyClosed(p)
  ELSE p

\* detectByElementManipulation(): append a detector element, look at it 100 ms later
detectByElementManipulation(p) == [p EXCEPT !.elementTimers = @ + 1]

\* detectByMultipleMethods(), the 200 ms interval callback
detectByMultipleMethods(p, e) ==
  detectByElementManipulation(detectByWindowSize(detectByConsoleImproved(p, e), e))

\* closedCount of the closing confirmation
closedCount(p, e) ==
  LET g == e.geom
  IN  B2N(g.oh - g.ih < 100 /\ g.ow - g.iw < 100)
      + B2N(~consoleCoerces(p, e))
      + B2N(e.dbg[1] < 50)

\* The timeout callback of checkIfReallyClosed: if (closedCount >= 2) deactivateProtection()
closingConfirmation(p, e) ==
  LET n  == closedCount(p, e)
      p1 == [consoleCall(p) EXCEPT !.lastCount = n]
  IN  IF n >= 2 THEN deactivateProtection(p1) ELSE p1

\* setupAdvancedProtection(): injectProtectionCSS, setupDOMProtection,
\* blockBypassMethods (console methods wrapped, global monitor started).
setupAdvancedProtection(p) == [p EXCEPT !.consoleWrapped = TRUE, !.domReadyPending = FALSE]

\* new EnhancedDevToolsProtection() and the rest of the loading IIFE, which ends
\* by setting a 500 ms timeout for one more detectDevToolsMultipleMethods.
loadProtection(p, e, loading) ==
  LET p1 == interceptNetworkRequests([p EXCEPT !.phase = "running"])
      p2 == detectDevToolsMultipleMethods(p1, e)
      p3 == IF loading THEN [p2 EXCEPT !.domReadyPending = TRUE]
            ELSE setupAdvancedProtection(p2)
  IN  IF p1.phase = "failed" THEN p1
      ELSE [p3 EXCEPT !.multiTimers = @ + 1]

\* blockKeyEvent of disableAllDevToolsAccess (the later of the two definitions of
\* that method is the one the class ends up with); key is e.key.toLowerCase().
KeyEvents ==
  { [key |-> "f12", ctrl |-> FALSE, shift |-> FALSE, meta |-> FALSE, alt |-> FALSE],
    [key |-> "i",   ctrl |-> TRUE,  shift |-> TRUE,  meta |-> FALSE, alt |-> FALSE],
    [key |-> "u",   ctrl |-> TRUE,  shift |-> FALSE, meta |-> FALSE, alt |-> FALSE],
    [key |-> "j",   ctrl |-> FALSE, shift |-> FALSE, meta |-> TRUE,  alt |-> TRUE],
    [key |-> "s",   ctrl |-> TRUE,  shift |-> FALSE, meta |-> FALSE, alt |-> FALSE],
    [key |-> "i",   ctrl |-> FALSE, shift |-> FALSE, meta |-> FALSE, alt |-> FALSE] }

keyBlocked(k) ==
  \/ k.key = "f12"
  \/ k.ctrl /\ k.shift /\ k.key \in {"i", "j", "c", "k"}
  \/ k.ctrl /\ k.key = "u"
  \/ k.meta /\ k.alt /\ k.key \in {"i", "c", "j"}

blockKeyEvent(p, k) == IF keyBlocked(k) THEN handleDevToolsDetected(p) ELSE p

\* the mousedown listener of disableAllDevToolsAccess
MouseEvents ==
  {m \in [button : {0, 1, 2}, ctrlOrMeta : BOOLEAN, interactive : BOOLEAN] :
     m.button # 0 => ~m.ctrlOrMeta /\ m.interactive}

mouseBlocked(m) ==
  \/ m.button = 2 \/ m.button = 1
  \/ m.ctrlOrMeta /\ m.button = 0 /\ ~m.interactive

\* window.fetch(...args), as installed at the time of the call
fetchCall(p, args) ==
  CASE p.fetchImpl = "wrapper" ->
         IF p.isDevToolsOpen
         THEN [api |-> "fetch", args |-> args, outcome |-> "fake403", passed |-> <<>>]
         ELSE IF p.originalFetch = "native"
         THEN [api |-> "fetch", args |-> args, outcome |-> "forwarded", passed |-> args]
         ELSE [api |-> "fetch", args |-> args, outcome |-> "typeError", passed |-> <<>>]
    [] p.fetchImpl = "block" ->
         [api |-> "fetch", args |-> args, outcome |-> "rejected", passed |-> <<>>]
    [] p.fetchImpl = "native" ->
         [api |-> "fetch", args |-> args, outcome |-> "forwarded", passed |-> args]
    [] OTHER ->
         [api |-> "fetch", args |-> args, outcome |-> "typeError", passed |-> <<>>]

\* XMLHttpRequest.prototype.open(method, url, ...args), as installed at the time
\* of the call; the wrapper forwards [method, url, ...args].
xhrOpenCall(p, args) ==
  CASE p.xhrOpenImpl = "wrapper" ->
         IF p.isDevToolsOpen
         THEN [api |-> "xhr", args |-> args, outcome |-> "dropped", passed |-> <<>>]
         ELSE [api |-> "xhr", args |-> args, outcome |-> "forwarded",
               passed |-> IF Len(args) < 2 THEN args \o <<"undefined">> ELSE args]
    [] p.xhrOpenImpl = "block" ->
         [api |-> "xhr", args |-> args, outcome |-> "throws", passed |-> <<>>]
    [] OTHER ->
         [api |-> "xhr", args |-> args, outcome |-> "forwarded", passed |-> args]

----------------------------------------------------------------------------
\* getProtectionStatus(), without the timestamp
getProtectionStatus(p) ==
  [active |-> p.protectionActive, devToolsOpen |-> p.isDevToolsOpen,
   networkBlocked |-> p.isDevToolsOpen]

----------------------------------------------------------------------------
\* Actions of the aggressive variant.

\* The model's bounds, as guards of the tasks that set timeouts.
Pending(p) ==
  p.closeTimers + p.consoleTimers + p.resizeTimers + p.multiTimers + p.healTimers

\* The detector timeout (100 ms) of one tick has fired before the next tick
\* (200 ms later) sets another.
WithinBounds(p, q) ==
  /\ Pending(q) > Pending(p) => Pending(q) <= MaxTimeouts
  /\ q.closeTimers > p.closeTimers => p.overlayObservers < MaxObservers
  /\ q.elementTimers <= 1

LoadProtection ==
  /\ prot.phase = "unloaded"
  /\ \E e \in Env, loading \in BOOLEAN, prim \in Primitives :
       prot' = loadProtection([BeginP(prot, "load") EXCEPT !.fetchImpl = prim.fetch,
                                                           !.xhrOpenImpl = prim.xhrOpen],
                              e, loading)
  /\ UNCHANGED <<shield, sw>>

\* DOMContentLoaded
DomContentLoaded ==
  /\ prot.domReadyPending
  /\ prot' = setupAdvancedProtection(BeginP(prot, "domReady"))
  /\ UNCHANGED <<shield, sw>>

\* setInterval(() => this.detectByMultipleMethods(), 200)
Tick ==
  /\ prot.phase = "running"
  /\ \E e \in EnvLight :
       LET p0 == BeginP(prot, "tick")
           q  == detectByMultipleMethods(p0, e)
       IN  /\ WithinBounds(prot, q)
           /\ prot' = [q EXCEPT !.lastCount =
                          B2N(consoleCoerces(p0, e)) + B2N(suspiciousSize(e))]
  /\ UNCHANGED <<shield, sw>>

\* the 100 ms timeout of detectByElementManipulation: the computed position of
\* the detector element is read; tampered: it is not 'absolute', or reading throws
ElementCheck ==
  /\ prot.elementTimers > 0
  /\ \E tampered \in BOOLEAN :
       LET p0 == [BeginP(prot, "elementCheck") EXCEPT !.elementTimers = @ - 1,
                                                      !.lastCount = B2N(tampered)]
       IN  prot' = IF tampered THEN handleDevToolsDetected(p0) ELSE p0
  /\ UNCHANGED <<shield, sw>>

\* the 200 ms double-check timeout of detectByWindowSize
ConsoleCheck ==
  /\ prot.consoleTimers > 0
  /\ \E e \in EnvLight :
       LET p0 == [BeginP(prot, "consoleCheck") EXCEPT !.consoleTimers = @ - 1]
       IN  prot' = [detectByConsoleImproved(p0, e) EXCEPT
                      !.lastCount = B2N(consoleCoerces(p0, e))]
  /\ UNCHANGED <<shield, sw>>

\* the 1000 ms timeout of checkIfReallyClosed
CloseCheck ==
  /\ prot.closeTimers > 0
  /\ \E e \in EnvClose :
       prot' = closingConfirmation(
                 [BeginP(prot, "closeCheck") EXCEPT !.closeTimers = @ - 1], e)
  /\ UNCHANGED <<shield, sw>>

\* blur, focus, or visibilitychange to visible: a timeout for
\* detectDevToolsMultipleMethods is set
WindowEvent ==
  /\ prot.phase = "running"
  /\ Pending(prot) < MaxTimeouts
  /\ prot' = [BeginP(prot, "windowEvent") EXCEPT !.multiTimers = @ + 1]
  /\ UNCHANGED <<shield, sw>>

\* a timeout for detectDevToolsMultipleMethods fires
MultiCheck ==
  /\ prot.multiTimers > 0
  /\ LET p0 == [BeginP(prot, "multiCheck") EXCEPT !.multiTimers = @ - 1]
     IN  \/ \E e \in Env : prot' = detectDevToolsMultipleMethods(p0, e)
         \/ \E e \in EnvLight, x \in ProbeFaults :
              prot' = detectWithProbeFault(p0, e, x)
  /\ UNCHANGED <<shield, sw>>

\* resize: setTimeout(() => this.detectByWindowSize(), 100)
ResizeProt ==
  /\ prot.phase = "running"
  /\ Pending(prot) < MaxTimeouts
  /\ prot' = [BeginP(prot, "resizeEvent") EXCEPT !.resizeTimers = @ + 1]
  /\ UNCHANGED <<shield, sw>>

ResizeCheck ==
  /\ prot.resizeTimers > 0
  /\ \E e \in EnvLight :
       LET p0 == [BeginP(prot, "resizeCheck") EXCEPT !.resizeTimers = @ - 1]
           q  == detectByWindowSize(p0, e)
       IN  /\ WithinBounds(prot, q)
           /\ prot' = [q EXCEPT !.lastCount = B2N(suspiciousSize(e))]
  /\ UNCHANGED <<shield, sw>>

KeyDown ==
  /\ prot.phase = "running"
  /\ \E k \in KeyEvents :
       prot' = blockKeyEvent([BeginP(prot, "keydown") EXCEPT !.lastCount = B2N(keyBlocked(k))], k)
  /\ UNCHANGED <<shield, sw>>

\* blockContextMenu
ContextMenu ==
  /\ prot.phase = "running"
  /\ prot' = handleDevToolsDetected([BeginP(prot, "contextmenu") EXCEPT !.lastCount = 1])
  /\ UNCHANGED <<shield, sw>>

MouseDown ==
  /\ prot.phase = "running"
  /\ \E m \in MouseEvents :
       LET p0 == [BeginP(prot, "mousedown") EXCEPT !.lastCount = B2N(mouseBlocked(m))]
       IN  prot' = IF mouseBlocked(m) THEN handleDevToolsDetected(p0) ELSE p0
  /\ UNCHANGED <<shield, sw>>

\* the 1000 ms interval of blockBypassMethods: a suspicious global name is
\* defined on window and the belief is Closed
GlobalMonitor ==
  /\ prot.consoleWrapped
  /\ \E present \in BOOLEAN :
       LET p0 == [BeginP(prot, "globalMonitor") EXCEPT !.lastCount = B2N(present)]
       IN  prot' = IF present /\ ~p0.isDevToolsOpen THEN handleDevToolsDetected(p0) ELSE p0
  /\ UNCHANGED <<shield, sw>>

\* triggerProtection()
TriggerProtection ==
  /\ prot.phase = "running"
  /\ prot' = handleDevToolsDetected([BeginP(prot, "trigger") EXCEPT !.lastCount = 1])
  /\ UNCHANGED <<shield, sw>>

\* Code outside the class (or the user, in the Elements panel) removes the
\* overlay from document.body.
OverlayRemovedExternally ==
  /\ prot.overlay
  /\ prot.overlayObservers < MaxObservers
  /\ Pending(prot) + prot.overlayObservers <= MaxTimeouts
  /\ prot' = overlayRemoved(BeginP(prot, "overlayRemoved"))
  /\ UNCHANGED <<shield, sw>>

\* a self-heal timeout fires: showEnhancedProtectionOverlay()
\* (lastCount: 1 when the overlay was missing)
HealFire ==
  /\ prot.healTimers > 0
  /\ prot' = showEnhancedProtectionOverlay(
                [BeginP(prot, "heal") EXCEPT !.healTimers = @ - 1,
                                             !.lastCount = B2N(~prot.overlay)])
  /\ UNCHANGED <<shield, sw>>

\* The page calls window.fetch / XMLHttpRequest.prototype.open.
FetchCall ==
  /\ prot.phase = "running"
  /\ \E args \in ArgLists :
       LET p0 == BeginP(prot, "fetch")
       IN  prot' = [p0 EXCEPT !.net = fetchCall(p0, args)]
  /\ UNCHANGED <<shield, sw>>

XhrOpenCall ==
  /\ prot.phase = "running"
  /\ \E args \in ArgLists :
       LET p0 == BeginP(prot, "xhrOpen")
       IN  prot' = [p0 EXCEPT !.net = xhrOpenCall(p0, args)]
  /\ UNCHANGED <<shield, sw>>

NextAggr ==
  \/ LoadProtection
  \/ DomContentLoaded
  \/ Tick
  \/ ElementCheck
  \/ ConsoleCheck
  \/ CloseCheck
  \/ WindowEvent
  \/ MultiCheck
  \/ ResizeProt
  \/ ResizeCheck
  \/ KeyDown
  \/ ContextMenu
  \/ MouseDown
  \/ GlobalMonitor
  \/ TriggerProtection
  \/ OverlayRemovedExternally
  \/ HealFire
  \/ FetchCall
  \/ XhrOpenCall

----------------------------------------------------------------------------

(***************************************************************************)
(*                  SERVICE WORKER  (service_worker.js)                    *)
(*                                                                         *)
(* The worker's listeners run as tasks; what they start (opening a cache,  *)
(* listing and deleting caches, a cache lookup, a network fetch, a put)    *)
(* completes in a later step.  The browser dispatches fetch events only to *)
(* the activated worker.                                                   *)
(***************************************************************************)

\* the number of cache writes that may be outstanding when a fetch event arrives
MaxPuts == 1

CACHE_NAME == "3010250100"

STATIC_CACHE == "youdai-static-" \o CACHE_NAME

DYNAMIC_CACHE == "youdai-dynamic-" \o CACHE_NAME

\* Names found in CacheStorage when the worker is registered: the caches of an
\* earlier generation, a cache of other code of the origin, and the current two
\* (left by an earlier installation of the same generation).
OldNames == {"youdai-static-2910250100", "youdai-dynamic-2910250100", "thumbs"}

\* new URL(request.url): origin and pathname (the pathname in pieces, the last
\* piece being its extension)
Url(o, p) == [origin |-> o, pathname |-> p]

EndsWith(url, ext) == url.pathname[Len(url.pathname)] = ext

Root == Url("self", <<"/">>)

STATIC_ASSETS ==
  { Root,
    Url("self", <<"/index", ".html">>),
    Url("self", <<"/player", ".html">>),
    Url("self", <<"/stream", ".html">>),
    Url("self", <<"/videos", ".json">>),
    Url("self", <<"/manifest", ".json">>),
    Url("self", <<"/dev", ".js">>),
    Url("cdnjs", <<"/ajax/libs/font-awesome/6.4.0/css/all.min", ".css">>) }

Request(method, mode, destination, url) ==
  [method |-> method, mode |-> mode, destination |-> destination, url |-> url]

\* The requests of the page: a navigation, the video list (read and posted), a
\* thumbnail, two precached assets and a script of another origin.
Requests ==
  { Request("GET", "navigate", "document", Url("self", <<"/player", ".html">>)),
    Request("GET", "cors", "", Url("self", <<"/videos", ".json">>)),
    Request("POST", "cors", "", Url("self", <<"/videos", ".json">>)),
    Request("GET", "no-cors", "image", Url("self", <<"/thumb", ".png">>)),
    Request("GET", "no-cors", "script", Url("self", <<"/dev", ".js">>)),
    Request("GET", "no-cors", "style",
            Url("cdnjs", <<"/ajax/libs/font-awesome/6.4.0/css/all.min", ".css">>)),
    Request("GET", "no-cors", "script", Url("foreign", <<"/widget", ".js">>)) }

\* the keys of the dynamic cache: the URLs of the .json, image and other requests
DynamicUrls == {r.url : r \in {q \in Requests : q.method = "GET" /\ q.mode # "navigate"}}

\* Responses: what the cache holds since installation, what the network
\* answers now, and the values a promise of the handler can settle to.
Response(status, body) == [status |-> status, body |-> body]

Undefined == Response(0, "undefined")

Rejected == Response(0, "rejected")

Precached == Response(200, "precached")

Fallback == Response(200, "No Image")

NetworkReplies == {Response(200, "fresh"), Response(404, "not found"), Rejected}

Idle == [step |-> "idle"]

SwInit ==
  [ phase     |-> "parsed",
    caches    |-> {},
    precached |-> FALSE,
    dynamic   |-> [u \in DynamicUrls |-> Undefined],
    deleting  |-> {},
    deleted   |-> {},
    puts      |-> {},
    flight    |-> Idle ]

\* caches.match(url): the first match over the caches of the origin; the static
\* cache is the older of the two current ones.
cachesMatch(w, url) ==
  IF STATIC_CACHE \in w.caches /\ w.precached /\ url \in STATIC_ASSETS THEN Precached
  ELSE IF DYNAMIC_CACHE \in w.caches /\ url \in DynamicUrls THEN w.dynamic[url]
  ELSE Undefined

\* caches.delete(name) completes
cachesDelete(w, name) ==
  [w EXCEPT !.caches = @ \ {name},
            !.deleting = @ \ {name},
            !.deleted = @ \cup {name},
            !.precached = IF name = STATIC_CACHE THEN FALSE ELSE @,
            !.dynamic = IF name = DYNAMIC_CACHE
                        THEN [u \in DynamicUrls |-> Undefined] ELSE @]

\* caches.open(DYNAMIC_CACHE).then(cache => cache.put(request, responseClone))
\* is started; it completes later.
cachePut(w, url, response) == [w EXCEPT !.puts = @ \cup {<<url, response>>}]

\* install listener: caches.open(STATIC_CACHE) ... ; self.skipWaiting()
onInstall(w) == [w EXCEPT !.phase = "installing"]

\* cache.addAll(STATIC_ASSETS) settles: all assets stored, or (catch) none.
installSettled(w, ok) ==
  [w EXCEPT !.phase = "installed",
            !.caches = @ \cup {STATIC_CACHE},
            !.precached = IF ok THEN TRUE ELSE @]

\* A faulty filter that keeps only the static cache.
staleCaches_StaticOnly(cacheNames) == {n \in cacheNames : n # STATIC_CACHE}

\* the filter of the activate listener
staleCaches(cacheNames) ==
  {n \in cacheNames : n # STATIC_CACHE /\ n # DYNAMIC_CACHE}

\* activate listener: caches.keys().then(...) lists the caches and starts
\* caches.delete for each one that passes the filter; self.clients.claim()
onActivate(w) ==
  [w EXCEPT !.phase = "activating", !.deleting = staleCaches(w.caches)]

\* Promise.all of the deletions has settled
activateSettled(w) == [w EXCEPT !.phase = "activated"]

\* The branch of the fetch listener that takes the request.
strategy(request) ==
  IF request.method # "GET" THEN "none"
  ELSE IF request.mode = "navigate" THEN "navigate"
  ELSE IF EndsWith(request.url, ".json") THEN "json"
  ELSE IF request.destination = "image" THEN "image"
  ELSE "other"

Flight(request, step) ==
  [ step |-> step, request |-> request, strategy |-> strategy(request),
    matched |-> Undefined, network |-> FALSE, response |-> Undefined ]

\* fetch listener
\* (a request that is not a GET gets no respondWith: the browser fetches it)
onFetch(w, request) ==
  LET s == strategy(request)
  IN  [w EXCEPT !.flight =
         IF s = "none" THEN [Flight(request, "default") EXCEPT !.network = TRUE]
         ELSE IF s = "json" THEN [Flight(request, "network") EXCEPT !.network = TRUE]
         ELSE Flight(request, "match")]

Respond(w, response) == [w EXCEPT !.flight.step = "responded", !.flight.response = response]

\* A faulty cache-first branch that goes to the network whatever the cache holds.
matchSettled_NetworkAlways(w) ==
  LET f == w.flight
      m == cachesMatch(w, IF f.strategy = "navigate" THEN Root ELSE f.request.url)
  IN  [w EXCEPT !.flight.matched = m, !.flight.step = "network", !.flight.network = TRUE]

\* caches.match(...) of the navigation, image and other branches has settled:
\* if (response) return response; return fetch(request)
matchSettled(w) ==
  LET f == w.flight
      m == cachesMatch(w, IF f.strategy = "navigate" THEN Root ELSE f.request.url)
      w1 == [w EXCEPT !.flight.matched = m]
  IN  IF m # Undefined THEN Respond(w1, m)
      ELSE [w1 EXCEPT !.flight.step = "network", !.flight.network = TRUE]

\* response.status === 200 && (url.origin === location.origin || url.origin === cdnjs)
cacheable(url, response) ==
  response.status = 200 /\ url.origin \in {"self", "cdnjs"}

\* fetch(request) has settled with reply (Rejected: the network failed)
fetchSettled(w, reply) ==
  LET f == w.flight
      url == f.request.url
  IN  CASE f.strategy = "navigate" ->
             IF reply = Rejected THEN [w EXCEPT !.flight.step = "rematch"]
             ELSE Respond(w, reply)
        [] f.strategy = "json" ->
             IF reply = Rejected THEN [w EXCEPT !.flight.step = "rematch"]
             ELSE Respond(cachePut(w, url, reply), reply)
        [] f.strategy = "image" ->
             IF reply = Rejected THEN Respond(w, Fallback)
             ELSE IF reply.status = 200 THEN Respond(cachePut(w, url, reply), reply)
             ELSE Respond(w, reply)
        [] OTHER ->
             IF reply = Rejected THEN Respond(w, Rejected)
             ELSE IF cacheable(url, reply) THEN Respond(cachePut(w, url, reply), reply)
             ELSE Respond(w, reply)

\* .catch(() => caches.match('/')) of a navigation, .catch(() =>
\* caches.match(request)) of a .json request, has settled
rematchSettled(w) ==
  LET f == w.flight
  IN  Respond(w, cachesMatch(w, IF f.strategy = "navigate" THEN Root ELSE f.request.url))

\* cache.put has completed (caches.open creates the dynamic cache when missing)
putSettled(w, url, response) ==
  [w EXCEPT !.puts = @ \ {<<url, response>>},
            !.caches = @ \cup {DYNAMIC_CACHE},
            !.dynamic[url] = response]

(***************************************************************************)
(* Service worker actions                                                  *)
(***************************************************************************)

\* The browser registers the worker and dispatches install; CacheStorage holds
\* whatever earlier generations left.
Install ==
  /\ sw.phase = "parsed"
  /\ \E found \in SUBSET (OldNames \cup {STATIC_CACHE, DYNAMIC_CACHE}), filled \in BOOLEAN :
       /\ filled => STATIC_CACHE \in found
       /\ sw' = onInstall([sw EXCEPT !.caches = found, !.precached = filled])
  /\ UNCHANGED <<shield, prot>>

InstallSettled ==
  /\ sw.phase = "installing"
  /\ \E ok \in BOOLEAN : sw' = installSettled(sw, ok)
  /\ UNCHANGED <<shield, prot>>

Activate ==
  /\ sw.phase = "installed"
  /\ sw' = onActivate(sw)
  /\ UNCHANGED <<shield, prot>>

CacheDeleted ==
  /\ \E name \in sw.deleting : sw' = cachesDelete(sw, name)
  /\ UNCHANGED <<shield, prot>>

ActivateSettled ==
  /\ sw.phase = "activating" /\ sw.deleting = {}
  /\ sw' = activateSettled(sw)
  /\ UNCHANGED <<shield, prot>>

FetchEvent ==
  /\ sw.phase = "activated"
  /\ sw.flight.step \in {"idle", "responded", "default"}
  /\ Cardinality(sw.puts) <= MaxPuts
  /\ \E request \in Requests : sw' = onFetch(sw, request)
  /\ UNCHANGED <<shield, prot>>

MatchSettled ==
  /\ sw.flight.step = "match"
  /\ sw' = matchSettled(sw)
  /\ UNCHANGED <<shield, prot>>

FetchSettled ==
  /\ sw.flight.step = "network"
  /\ \E reply \in NetworkReplies : sw' = fetchSettled(sw, reply)
  /\ UNCHANGED <<shield, prot>>

RematchSettled ==
  /\ sw.flight.step = "rematch"
  /\ sw' = rematchSettled(sw)
  /\ UNCHANGED <<shield, prot>>

PutSettled ==
  /\ \E put \in sw.puts : sw' = putSettled(sw, put[1], put[2])
  /\ UNCHANGED <<shield, prot>>

NextSW ==
  \/ Install
  \/ InstallSettled
  \/ Activate
  \/ CacheDeleted
  \/ ActivateSettled
  \/ FetchEvent
  \/ MatchSettled
  \/ FetchSettled
  \/ RematchSettled
  \/ PutSettled

Init == shield = ShieldInit /\ prot = ProtInit /\ sw = SwInit

SpecSoft == Init /\ [][NextSoft]_vars

SpecAggr == Init /\ [][NextAggr]_vars

SpecSW == Init /\ [][NextSW]_vars

\* The aggressive variant on a page where, once the script has loaded, every
\* probe reads as not triggered: both gaps between outer and inner size are
\* below 100 px, the console formats nothing, the debugger statements return at
\* once, the detector element is untouched and no key or mouse input is blocked.
\* The page may call triggerProtection() (while fewer than MaxObservers overlay
\* observers are registered); the interval and the timeouts fire.
QuietEnv ==
  {e \in EnvClose : /\ e.geom.oh - e.geom.ih < 100 /\ e.geom.ow - e.geom.iw < 100
                    /\ ~e.consoleOpen
                    /\ \A i \in 1..3 : e.dbg[i] < 50}

QuietTick ==
  /\ prot.phase = "running"
  /\ \E e \in QuietEnv :
       LET p0 == BeginP(prot, "tick")
           q  == detectByMultipleMethods(p0, e)
       IN  /\ Pending(q) > Pending(prot) => Pending(q) <= MaxTimeouts
           /\ q.elementTimers <= 1
           /\ prot' = [q EXCEPT !.lastCount =
                          B2N(consoleCoerces(p0, e)) + B2N(suspiciousSize(e))]
  /\ UNCHANGED <<shield, sw>>

QuietElementCheck ==
  /\ prot.elementTimers > 0
  /\ prot' = [BeginP(prot, "elementCheck") EXCEPT !.elementTimers = @ - 1,
                                                 !.lastCount = 0]
  /\ UNCHANGED <<shield, sw>>

QuietCloseCheck ==
  /\ prot.closeTimers > 0
  /\ \E e \in QuietEnv :
       prot' = closingConfirmation(
                 [BeginP(prot, "closeCheck") EXCEPT !.closeTimers = @ - 1], e)
  /\ UNCHANGED <<shield, sw>>

\* triggerProtection(), called by the page
QuietTrigger ==
  /\ prot.overlayObservers < MaxObservers
  /\ TriggerProtection

NextQuiet ==
  \/ LoadProtection
  \/ DomContentLoaded
  \/ QuietTrigger
  \/ QuietTick
  \/ QuietElementCheck
  \/ QuietCloseCheck
  \/ HealFire

LiveQuiet ==
  /\ Init /\ [][NextQuiet]_vars
  /\ WF_vars(QuietTick) /\ WF_vars(QuietElementCheck)
  /\ WF_vars(QuietCloseCheck) /\ WF_vars(HealFire)

\* Timeouts that are set do fire.
LiveAggr == SpecAggr /\ WF_vars(HealFire)

----------------------------------------------------------------------------
\* Properties of the aggressive variant.
\* lastOp names the last task, prevOpen is isDevToolsOpen before it, lastCount
\* the number of probes that triggered in it (for closeCheck: closedCount).

Evaluations == {"load", "tick", "multiCheck", "consoleCheck", "resizeCheck", "elementCheck"}

\* C2: isDevToolsOpen goes from true to false only in the delayed callback of
\* checkIfReallyClosed, and only when at least 2 of its 3 checks confirm closure;
\* in particular no detection tick sets it to false.
C2_CloseOnlyByConfirmation ==
  /\ prot.prevOpen /\ ~prot.isDevToolsOpen =>
        prot.lastOp = "closeCheck" /\ prot.lastCount >= 2
  /\ prot.prevOpen /\ prot.lastOp = "tick" => prot.isDevToolsOpen

C2_Witness ==
  /\ prot.prevOpen /\ ~prot.isDevToolsOpen
  /\ prot.lastOp = "closeCheck" /\ prot.lastCount >= 2

\* C3 (as claimed): the belief goes from Closed to Open only in an evaluation in
\* which at least 2 probes triggered; an evaluation with exactly 1 triggered
\* probe leaves it Closed.
C3_OpenNeedsTwoProbes ==
  prot.lastOp \in Evaluations /\ ~prot.prevOpen /\ prot.isDevToolsOpen =>
    prot.lastCount >= 2

\* C4: a call of window.fetch or XMLHttpRequest.prototype.open made while
\* isDevToolsOpen is true is never forwarded to the saved original, in the first
\* open period and in every later one.
C4_NoForwardWhileOpen ==
  prot.net.api # "none" /\ prot.isDevToolsOpen => prot.net.outcome # "forwarded"

C4_Witness ==
  /\ prot.net.api = "fetch" /\ prot.isDevToolsOpen
  /\ prot.cycles >= 1
  /\ prot.net.outcome = "rejected"

\* C5: after the belief has gone from Open to Closed (once or several times), a
\* call of window.fetch or XMLHttpRequest.prototype.open made while it is Closed
\* reaches the original saved at construction with exactly the caller's arguments.
C5_RestoredAfterClose ==
  /\ prot.net.api = "fetch" /\ ~prot.isDevToolsOpen /\ prot.cycles >= 1
       /\ prot.originalFetch = "native" =>
        prot.net.outcome = "forwarded" /\ prot.net.passed = prot.net.args
  /\ prot.net.api = "xhr" /\ ~prot.isDevToolsOpen /\ prot.cycles >= 1
       /\ prot.originalXHR = "native" =>
        prot.net.outcome = "forwarded" /\ prot.net.passed = prot.net.args

C5_Witness ==
  /\ prot.net.api = "xhr" /\ ~prot.isDevToolsOpen /\ prot.cycles >= 2
  /\ prot.net.outcome = "forwarded" /\ prot.net.args = <<"a">>
  /\ prot.net.passed = <<"a">>

\* C6 (as claimed): while the belief is Closed the element 'devtools-overlay' is
\* not in the document, whatever timeouts are pending.
C6_NoOverlayWhileClosed ==
  prot.phase = "running" /\ ~prot.isDevToolsOpen => ~prot.overlay

\* C7: when the overlay is missing while the belief is Open, then the overlay is
\* eventually in the document again, or the belief has become Closed.
C7_OverlaySelfHeals ==
  (prot.isDevToolsOpen /\ ~prot.overlay) ~> (prot.overlay \/ ~prot.isDevToolsOpen)

C7_Witness ==
  /\ prot.lastOp = "heal" /\ prot.lastCount = 1
  /\ prot.isDevToolsOpen /\ prot.overlay

----------------------------------------------------------------------------
\* Properties of the soft variant.

\* Number of events named name dispatched on window by the last task.
EventCount(s, name) ==
  Cardinality({i \in 1..Len(s.events) : s.events[i].name = name})

\* Number of 'youdai:tamper' events of the given type dispatched by the last task.
TamperCount(s, type) ==
  Cardinality({i \in 1..Len(s.events) :
                 /\ s.events[i].name = "youdai:tamper"
                 /\ s.events[i].detail.type = type})

\* Number of invocations of subscriber cb in the last task.
CallCount(s, cb) ==
  Cardinality({i \in 1..Len(s.calls) : s.calls[i].cb = cb})

Registered(s) == {s.listeners[i] : i \in 1..Len(s.listeners)}

\* C1 (as claimed): a poll tick or resize re-check emits 'youdai:devtools-change'
\* if and only if the open value after it differs from the open value before it.
C1_NotifyIffFlip ==
  shield.lastOp \in {"poll", "resize"} =>
    EventCount(shield, "youdai:devtools-change")
      = (IF shield.open # shield.prevOpen THEN 1 ELSE 0)

C9_UnsubscribeContract ==
  [][\A cb \in Callbacks :
       /\ cb \in shield.dropped => CallCount(shield', cb) = 0
       /\ cb \in Registered(shield) =>
            CallCount(shield', cb) =
              (IF CbKind(cb) = "once" THEN Min(1, Len(shield'.events))
               ELSE Len(shield'.events))]_vars

C9_Witness ==
  /\ shield.events # <<>>
  /\ \E cb \in shield.dropped : CallCount(shield, cb) = 0
  /\ \E cb \in Registered(shield) : CallCount(shield, cb) = 1

\* C10 (as claimed): subscribers registered through onChange are invoked for
\* belief changes only: every invocation carries an { open, reason } detail, and
\* tamper events and the ready event never reach them.
C10_OnlyChangesReachSubscribers ==
  \A i \in 1..Len(shield.calls) : shield.calls[i].detail.tag = "change"

\* A 'youdai:devtools-change' notification whose payload differs from what the
\* listener reads from the shield at that moment.
StaleAt(seen, detail) ==
  \/ seen.open # detail.open
  \/ seen.reason # detail.reason
  \/ seen.banner # detail.open
  \/ seen.blur # detail.open

\* C11: whenever 'youdai:devtools-change' is dispatched on window or a subscriber
\* is invoked with a change payload, open and reason already have the values of
\* the payload and the banner and blur classes already follow the new open value.
C11_ReactBeforeNotify ==
  /\ \A i \in 1..Len(shield.events) :
        shield.events[i].detail.tag = "change" =>
          ~StaleAt(shield.events[i].seen, shield.events[i].detail)
  /\ \A i \in 1..Len(shield.calls) :
        shield.calls[i].detail.tag = "change" =>
          ~StaleAt(shield.calls[i].seen, shield.calls[i].detail)

C11_Witness ==
  /\ shield.open /\ ~shield.prevOpen
  /\ \E i \in 1..Len(shield.calls) :
        /\ shield.calls[i].detail.tag = "change"
        /\ shield.calls[i].seen.open /\ shield.calls[i].seen.blur
        /\ shield.calls[i].seen.banner

\* C12: in every task that notifies while the throwing subscriber is registered,
\* that subscriber is invoked, every other subscriber registered at the start of
\* the task is invoked too, no exception leaves the notification, and a poll tick
\* ends with open, reason and the subscriber set as they are without the throwing
\* subscriber, and with the next tick scheduled.
C12_ThrowingSubscriberIsolated ==
  [][("cbThrows" \in Registered(shield) /\ shield'.events # <<>>) =>
       /\ CallCount(shield', "cbThrows") = Len(shield'.events)
       /\ \A cb \in Registered(shield) : CallCount(shield', cb) >= 1
       /\ ~shield'.exc
       /\ "cbThrows" \in Registered(shield')
       /\ shield'.lastOp = "poll" =>
            LET in  == shield'.input
                ref == poll([Begin(shield, "poll") EXCEPT
                               !.listeners = SetDelete(@, "cbThrows")],
                            in.dt, in.dw, in.dh)
            IN  /\ shield'.open = ref.open
                /\ shield'.reason = ref.reason
                /\ SetDelete(shield'.listeners, "cbThrows") = ref.listeners
                /\ shield'.detectTimerLive
                /\ shield'.detectTimers >= 1]_vars

C12_Witness ==
  /\ shield.lastOp = "poll"
  /\ Len(shield.calls) >= 2
  /\ shield.calls[1].cb = "cbThrows" /\ shield.calls[2].cb = "cbPlain"
  /\ shield.open # shield.prevOpen
  /\ shield.detectTimerLive

\* The probes of the tick the last task ran, from its readings.
TimingTriggered(in) == in.dt > threshold

GapTriggered(in) == Abs(in.dw) > gapLimit \/ Abs(in.dh) > gapLimit

\* C13: after a poll tick (the first one, run by the script, included) open is
\* true exactly when the timing probe or the viewport-gap probe triggered in
\* that tick, whatever the belief was before and whoever set it.
C13_PollIsOrOfProbes ==
  shield.lastOp = "poll" \/ (shield.lastOp = "load" /\ shield.phase = "running") =>
    (shield.open <=> TimingTriggered(shield.input) \/ GapTriggered(shield.input))

C13_Witness ==
  /\ shield.lastOp = "poll" /\ shield.consoleProbeOpen
  /\ shield.prevOpen /\ ~shield.open
  /\ ~TimingTriggered(shield.input) /\ ~GapTriggered(shield.input)

\* C14: a poll tick that starts Closed, measures more than 200 ms around the
\* debugger statement and reads no viewport gap over the limit ends Open with a
\* 'debugger-timing' reason, and dispatches exactly one 'youdai:devtools-change'
\* event, whose payload has open true and that reason.
C14_TimingAloneOpens ==
  /\ shield.lastOp = "poll" /\ ~shield.prevOpen
  /\ TimingTriggered(shield.input) /\ ~GapTriggered(shield.input)
  =>
  /\ shield.open /\ shield.reason.tag = "debugger-timing"
  /\ shield.reason.ms = shield.input.dt
  /\ EventCount(shield, "youdai:devtools-change") = 1
  /\ \A i \in 1..Len(shield.events) :
        shield.events[i].name = "youdai:devtools-change" =>
          /\ shield.events[i].detail.open
          /\ shield.events[i].detail.reason.tag = "debugger-timing"

C14_Witness ==
  /\ shield.lastOp = "poll" /\ ~shield.prevOpen
  /\ shield.input.dt = 210 /\ ~GapTriggered(shield.input)
  /\ shield.open /\ shield.reason.tag = "debugger-timing"
  /\ EventCount(shield, "youdai:devtools-change") = 1

\* What the script installs: timers, listeners, the observer, DOM nodes, the
\* global API object.
Installed(s) ==
  [detectTimers |-> s.detectTimers, sizeTimers |-> s.sizeTimers, raf |-> s.rafPending,
   resizeListener |-> s.resizeListener, observing |-> s.observing,
   hostAttached |-> s.hostAttached, metaAdded |-> s.metaAdded,
   integrityPending |-> s.integrityPending, apiDefined |-> s.apiDefined,
   listeners |-> s.listeners, bannerShown |-> s.bannerShown, blurGlobal |-> s.blurGlobal]

\* C16 (as claimed): a page load with debug=1 in the URL has no observable side
\* effect at all: nothing is installed, nothing is emitted, nothing is written.
C16_OptOutSilent ==
  shield.phase = "disabled" =>
    /\ Installed(shield) = Installed(ShieldInit)
    /\ shield.events = <<>> /\ shield.calls = <<>>
    /\ ~shield.debugNotice

\* C16 (amended): a page load with debug=1 in the URL writes one console.info
\* line and has no other effect: timers, listeners, observer, DOM nodes, API
\* object, banner and blur are as before the script ran, no event was dispatched
\* and no subscriber invoked.
C16_OptOutHasNoEffect ==
  shield.phase = "disabled" =>
    /\ Installed(shield) = Installed(ShieldInit)
    /\ shield.events = <<>> /\ shield.calls = <<>>
    /\ ~shield.open /\ shield.reason = Reason("init")
    /\ shield.debugNotice

C16_Witness ==
  /\ shield.phase = "disabled" /\ shield.lastOp = "load"
  /\ TimingTriggered(shield.input)

\* C17: 'youdai:shield-ready' is dispatched by the script's own run and by no
\* later task, exactly once, last, without payload, and at that moment the API
\* object is defined, the resize listener registered and the next poll scheduled.
C17_ReadyOnceAfterSetup ==
  /\ shield.lastOp # "load" => EventCount(shield, "youdai:shield-ready") = 0
  /\ shield.lastOp = "load" /\ shield.phase = "running" =>
        /\ EventCount(shield, "youdai:shield-ready") = 1
        /\ LET e == shield.events[Len(shield.events)]
            IN  /\ e.name = "youdai:shield-ready"
                /\ e.detail = NoDetail
                /\ e.seen.api /\ e.seen.resize /\ e.seen.pollScheduled
                /\ EventCount(shield, "youdai:devtools-change") = 1

C17_Witness ==
  /\ shield.lastOp = "load" /\ shield.phase = "running"
  /\ Len(shield.events) = 2
  /\ shield.events[2].name = "youdai:shield-ready"
  /\ shield.events[2].seen.pollScheduled

\* The tasks that re-evaluate the belief.
Reevaluations == {"poll", "resize", "consoleProbe"}

\* C18 (as claimed): blurSensitive(show) gives the blur class the requested
\* value, and a re-evaluation (poll tick, resize re-check, console probe) that
\* leaves open as it was leaves the blur class as it was.
C18_ExplicitBlurKept ==
  [][/\ shield'.lastOp = "blurSensitive" =>
          shield'.blurGlobal = (shield'.input.show # "false")
     /\ shield'.lastOp \in Reevaluations /\ shield'.open = shield.open =>
          shield'.blurGlobal = shield.blurGlobal]_vars

\* C19: the badge's visibility changes in no task but a watermark(show) call, and
\* after watermark(show) the badge is hidden exactly when show is false.
C19_BadgeOnlyByWatermark ==
  [][/\ shield'.badgeHidden # shield.badgeHidden => shield'.lastOp = "watermark"
     /\ shield'.lastOp = "watermark" =>
          shield'.badgeHidden = (shield'.input.show = "false")]_vars

C19_Witness ==
  /\ shield.lastOp \in Reevaluations
  /\ shield.open # shield.prevOpen
  /\ shield.badgeHidden

\* C22: while the shield runs, between tasks exactly one poll timeout is
\* pending, and it is the one detectTimer names: a tick that ran has set exactly
\* one next tick, and no other task sets or cancels one.
C22_OnePollPending ==
  shield.phase = "running" =>
    /\ shield.detectTimers = 1
    /\ shield.detectTimerLive

C22_Witness ==
  /\ shield.lastOp = "poll"
  /\ shield.open # shield.prevOpen
  /\ shield.detectTimers = 1 /\ shield.detectTimerLive
  /\ shield.sizeTimers = 1

----------------------------------------------------------------------------
\* Further properties of the aggressive variant.

\* C15 (as claimed): when deactivateProtection has taken the belief from Open to
\* Closed, window.fetch, XMLHttpRequest.prototype.open, window.WebSocket,
\* window.EventSource, the protection classes of body and the inline lock styles
\* are what they were when that activation started.
C15_AllRestrictionsCleared ==
  prot.lastOp = "closeCheck" /\ prot.prevOpen /\ ~prot.isDevToolsOpen =>
    Restrictable(prot) = prot.preActivation

FusionTasks == Evaluations \cup {"closeCheck", "trigger"}

\* C21 (as claimed): isDevToolsOpen changes only in a task that evaluates probes;
\* a key shortcut, a context menu, a mouse button or the global-name monitor
\* does not change it on its own.
C21_NoPathBypassesFusion ==
  prot.isDevToolsOpen # prot.prevOpen => prot.lastOp \in FusionTasks

\* C23 (as claimed): a fusion pass in which one probe throws ends with a count
\* in which that probe counts as triggered and every other probe was evaluated,
\* and opens the belief when that count reaches the quorum.
C23_ProbeExceptionCounts ==
  prot.faultExpect > 0 =>
    /\ prot.lastCount = prot.faultExpect
    /\ prot.faultExpect >= 2 => prot.isDevToolsOpen

\* C24 (as claimed): on a page without window.fetch or without XMLHttpRequest
\* the construction does not throw, and after an open/close cycle window.fetch is
\* what it was before the construction.
C24_MissingPrimitiveDegrades ==
  /\ prot.phase # "failed"
  /\ prot.originalFetch = "undef" /\ prot.cycles >= 1 /\ ~prot.isDevToolsOpen =>
        prot.fetchImpl = "undef"

\* C25 (as claimed): however many resize events arrive before a pending resize
\* re-evaluation has run, one re-evaluation is pending: a later event replaces
\* the timeout of an earlier one.
C25_ResizeDebounced ==
  /\ shield.sizeTimers <= 1
  /\ prot.resizeTimers <= 1

\* C26: the document never holds more than one element of id 'devtools-overlay',
\* and a task that finds the overlay present and leaves it present has neither
\* appended an element nor registered an observer.
C26_OverlayIdempotent ==
  [][/\ prot'.overlayNodes <= 1
     /\ prot.overlay /\ prot'.overlay =>
          /\ prot'.overlayNodes = prot.overlayNodes
          /\ prot'.overlayObservers = prot.overlayObservers]_vars

\* a self-heal timeout has fired while the overlay was present, with two
\* observers registered
C26_Witness ==
  /\ prot.lastOp = "heal" /\ prot.lastCount = 0
  /\ prot.overlay /\ prot.overlayNodes = 1
  /\ prot.overlayObservers >= 2

\* C29: between tasks, protectionActive equals isDevToolsOpen.
C29_ActiveIffOpen == prot.protectionActive = prot.isDevToolsOpen

\* a detection after a closing confirmation: both flags set again
C29_Witness ==
  /\ prot.cycles >= 1 /\ ~prot.prevOpen
  /\ prot.isDevToolsOpen /\ prot.protectionActive

\* C30 (as claimed): a closing confirmation that reaches deactivateProtection
\* (two or more of its three checks say closed) runs while the belief is Open.
C30_DeactivateOnlyWhenOpen ==
  prot.lastOp = "closeCheck" /\ prot.lastCount >= 2 => prot.prevOpen

\* ------------------------------------------------------------------------
\* Properties of the service worker.

CurrentCaches == {STATIC_CACHE, DYNAMIC_CACHE}

\* C27: once the work of the activate listener has completed, CacheStorage holds
\* no cache but the current static and dynamic ones; and the worker never
\* deletes (or sets out to delete) either of these two, so the static cache
\* opened at installation is there ever after.
C27_GenerationalCleanup ==
  /\ sw.phase = "activated" => sw.caches \subseteq CurrentCaches
  /\ (sw.deleting \cup sw.deleted) \cap CurrentCaches = {}
  /\ sw.phase \in {"installed", "activating", "activated"} => STATIC_CACHE \in sw.caches

\* activation has completed: all three caches of other generations were found
\* and deleted, and the dynamic cache found at registration is kept
C27_Witness ==
  /\ sw.phase = "activated" /\ sw.flight = Idle /\ sw.puts = {}
  /\ sw.deleted = OldNames
  /\ sw.caches = CurrentCaches

\* C28: a GET request that is neither a navigation nor for a '.json' path goes to
\* the network exactly when caches.match found nothing for it; when a match was
\* found, the response is that match.
C28_CacheFirst ==
  sw.flight.step \in {"network", "responded"} /\ sw.flight.strategy \in {"image", "other"} =>
    /\ sw.flight.network <=> sw.flight.matched = Undefined
    /\ sw.flight.step = "responded" /\ sw.flight.matched # Undefined =>
         sw.flight.response = sw.flight.matched

\* an image request answered from the dynamic cache, where an earlier miss had
\* put the network's response
C28_Witness ==
  /\ sw.flight.step = "responded" /\ sw.flight.strategy = "image"
  /\ ~sw.flight.network
  /\ sw.flight.matched = Response(200, "fresh")
  /\ sw.flight.response = sw.flight.matched

\* ------------------------------------------------------------------------
\* Closing and the quorum of the aggressive variant.

\* C31 (as claimed): on a page where every probe reads as not triggered and the
\* timers keep firing, belief Open leads to belief Closed.
C31_QuietLeadsToClosed == prot.isDevToolsOpen ~> ~prot.isDevToolsOpen

\* C32: a closing confirmation that runs while protection is active and the
\* console methods are wrapped counts the console check as closed whatever the
\* console does, so its count is one more than the number of the other two
\* checks that pass (both size gaps below 100 px; first debugger delay below
\* 50 ms), and the belief returns to Closed whenever one of these two passes.
C32_WrappedConsoleVotesClosed ==
  [][prot'.lastOp = "closeCheck" /\ prot.closeTimers > 0 /\ consoleSwallows(prot) =>
       \A e \in EnvClose :
         LET p0 == [BeginP(prot, "closeCheck") EXCEPT !.closeTimers = @ - 1]
             sizeOk == e.geom.oh - e.geom.ih < 100 /\ e.geom.ow - e.geom.iw < 100
             dbgOk  == e.dbg[1] < 50
         IN  prot' = closingConfirmation(p0, e) =>
               /\ prot'.lastCount = 1 + B2N(sizeOk) + B2N(dbgOk)
               /\ sizeOk \/ dbgOk => ~prot'.isDevToolsOpen]_vars

\* a closing confirmation has run with the wrapper in place and protection
\* active, counted two and returned the belief to Closed
C32_Witness ==
  /\ prot.lastOp = "closeCheck" /\ prot.prevOpen /\ prot.consoleWrapped
  /\ prot.lastCount = 2
  /\ ~prot.isDevToolsOpen /\ ~prot.protectionActive

\* C33 (as claimed): in a pass of detectDevToolsMultipleMethods where the
\* console probe does not trigger, every debugger trial is fast, at most three
\* inspector globals are present and the load was not slow, the count stays
\* below the quorum of 2: methods 2 and 5 do not both count one geometry.
C33_GeometryAloneBelowQuorum ==
  [][prot'.lastOp = "multiCheck" /\ prot.multiTimers > 0 /\ prot'.faultExpect = 0 =>
       \A e \in Env :
         LET p0 == [BeginP(prot, "multiCheck") EXCEPT !.multiTimers = @ - 1]
         IN  /\ ~method1(p0, e) /\ ~method3(e) /\ ~method4(e) /\ ~method6(e)
             /\ prot' = detectDevToolsMultipleMethods(p0, e)
             => /\ prot'.lastCount < 2
                /\ ~(method2(e) /\ method5(e))]_vars

====
